---------------------------- MODULE Spec2Model ----------------------------
(***************************************************************************)
(* A model of the Schmidt-Samoa cryptosystem of schmidt_samoa.py: the      *)
(* Miller-Rabin primality test, the iterative extended Euclidean           *)
(* algorithm and the modular inverse, key generation, the integer          *)
(* encrypt/decrypt primitives and the string codec with chunking.          *)
(*                                                                         *)
(* Python integers are unbounded and the key sizes of the program start at *)
(* 64 bits; TLC's integers have 32 bits.  The model therefore runs the     *)
(* same code on short primes (KeyBits bits each), which keeps every        *)
(* modulus n = p*p*q below 2^22.                                           *)
(***************************************************************************)
EXTENDS Integers, Sequences, FiniteSets, TLC

VARIABLES
    fn,     \* the last call of extended_gcd or mod_inverse, with its result
    mr,     \* the frame of a call of is_prime: its arguments, locals, result
    pc,     \* where the call of generate_keypair stands
    bits,   \* generate_keypair: the bits argument
    p,      \* generate_keypair: the local p
    q,      \* generate_keypair: the local q
    keys,   \* what generate_keypair returned or raised
    enc,    \* the last call of encrypt, encrypt_string, encrypt_large_string
    dec     \* the last call of decrypt, decrypt_string, decrypt_large_string

vars == <<fn, mr, pc, bits, p, q, keys, enc, dec>>

----------------------------------------------------------------------------
(* Bounds of the model.                                                    *)

\* extended_gcd and mod_inverse are called with arguments up to MaxArg.
MaxArg == 12
\* is_prime is called directly on the integers -1..MaxN.
MaxN == 30
\* An explicit iteration count k of is_prime ranges over 0..MaxK.
MaxK == 2
\* generate_keypair draws primes of KeyBits bits; the program's floor of 64
\* bits is scaled down to KeyBits as well.
KeyBits == 6
\* Integer messages are -1..MaxMsg and the values around p*q and n.
MaxMsg == 2
\* Texts have at most MaxTextLen characters.
MaxTextLen == 3
\* Integers at or above IntCap are collapsed to IntCap: they are above every
\* modulus of the model and are only ever compared with one.
IntCap == 1073741824

----------------------------------------------------------------------------
(* Results of calls: a returned value, or the exception raised.            *)

Ok(v) == [tag |-> "ok", val |-> v]
Raise(kind, msg) == [tag |-> kind, msg |-> msg]
None == [tag |-> "none"]
\* No call of the arithmetic functions yet; no frame of is_prime yet; no call
\* of an encrypting or decrypting operation yet.
NoArith == [name |-> "none"]
NoFrame == [pc |-> "none"]
NoCall == [op |-> "none"]
IsOk(r) == r.tag = "ok"

----------------------------------------------------------------------------
(* Python's built-in integer operations.                                   *)

Abs(x) == IF x < 0 THEN -x ELSE x

\* int.bit_length()
RECURSIVE bit_length(_)
bit_length(n) == IF n = 0 THEN 0 ELSE 1 + bit_length(Abs(n) \div 2)

\* (a * b) % n for 0 <= a, b < n < 2^22, without leaving 32 bits.
RECURSIVE MulMod(_, _, _)
MulMod(a, b, n) ==
    IF b < 256 THEN (a * b) % n
    ELSE (MulMod(a, b \div 256, n) * 256 + a * (b % 256)) % n

\* pow(base, exp, mod) for exp >= 0 and mod >= 1.
RECURSIVE pow(_, _, _)
pow(base, exp, mod) ==
    IF exp = 0 THEN 1 % mod
    ELSE LET h == pow(base, exp \div 2, mod)
             s == MulMod(h, h, mod)
         IN  IF exp % 2 = 1 THEN MulMod(s, base % mod, mod) ELSE s

\* math.gcd
RECURSIVE math_gcd(_, _)
math_gcd(a, b) == IF b = 0 THEN Abs(a) ELSE math_gcd(b, a % Abs(b))

\* math.lcm
math_lcm(a, b) == IF a = 0 \/ b = 0 THEN 0 ELSE Abs(a * b) \div math_gcd(a, b)

----------------------------------------------------------------------------
(* SchmidtSamoa.extended_gcd and SchmidtSamoa.mod_inverse.                 *)

\* extended_gcd_loop with the quotient left out of the update of y.
RECURSIVE extended_gcd_loop_noquo(_, _, _, _, _, _)
extended_gcd_loop_noquo(a, b, x_prev, x, y_prev, y) ==
    IF b = 0 THEN <<a, x_prev, y_prev>>
    ELSE LET quo == a \div b
         IN  extended_gcd_loop_noquo(b, a % b, x, x_prev - quo * x, y, y_prev - y)

\* The while loop of extended_gcd, one iteration per unfolding.
RECURSIVE extended_gcd_loop(_, _, _, _, _, _)
extended_gcd_loop(a, b, x_prev, x, y_prev, y) ==
    IF b = 0 THEN <<a, x_prev, y_prev>>
    ELSE LET quo == a \div b
         IN  extended_gcd_loop(b, a % b, x, x_prev - quo * x, y, y_prev - quo * y)

extended_gcd(a, b) ==
    IF a = 0 THEN <<b, 0, 1>>
    ELSE IF b = 0 THEN <<a, 1, 0>>
    ELSE extended_gcd_loop(a, b, 1, 0, 0, 1)

\* mod_inverse returning the coefficient x as extended_gcd gave it.
mod_inverse_raw(a, m) ==
    IF m <= 0 THEN Raise("ValueError", "Modulus must be positive")
    ELSE LET g == extended_gcd(a % m, m)
         IN  IF g[1] # 1 THEN Raise("ValueError", "Modular inverse doesn't exist")
             ELSE Ok(g[2])

mod_inverse(a, m) ==
    IF m <= 0 THEN Raise("ValueError", "Modulus must be positive")
    ELSE LET g == extended_gcd(a % m, m)
         IN  IF g[1] # 1 THEN Raise("ValueError", "Modular inverse doesn't exist")
             ELSE Ok(((g[2] % m) + m) % m)

----------------------------------------------------------------------------
(* SchmidtSamoa.is_prime: the Miller-Rabin test.                           *)

_get_miller_rabin_iterations(nbits) ==
    IF nbits <= 512 THEN 64
    ELSE IF nbits <= 1024 THEN 32
    ELSE IF nbits <= 1536 THEN 16
    ELSE 8

\* The loop "while d % 2 == 0": <<r, d>> with n - 1 = d * 2^r and d odd.
RECURSIVE factor_twos(_, _)
factor_twos(r, d) == IF d % 2 = 0 THEN factor_twos(r + 1, d \div 2) ELSE <<r, d>>

\* secrets.randbelow(m): any of 0..m-1.
randbelow(m) == 0..(m - 1)

\* The witnesses a round may draw: secrets.randbelow(n - 2) + 2.
witness_draws(n) == {u + 2 : u \in randbelow(n - 2)}

\* The inner loop "for _ in range(r - 1)", with j squarings left: TRUE when it
\* breaks on x = n - 1, FALSE when it runs out (the else branch).
RECURSIVE squaring_loop(_, _, _)
squaring_loop(x, j, n) ==
    IF j <= 0 THEN FALSE
    ELSE LET x2 == pow(x, 2, n)
         IN  IF x2 = n - 1 THEN TRUE ELSE squaring_loop(x2, j - 1, n)

\* A round that skips the test of x against n - 1 before the squarings.
round_passes_no_minus_one(n, r, d, a) ==
    LET x == pow(a, d, n)
    IN  IF x = 1 THEN TRUE ELSE squaring_loop(x, r - 1, n)

\* One round of the outer loop with witness a: TRUE when the round lets n
\* through (continue or break), FALSE when it returns False.
round_passes(n, r, d, a) ==
    LET x == pow(a, d, n)
    IN  IF x = 1 \/ x = n - 1 THEN TRUE ELSE squaring_loop(x, r - 1, n)

\* The frame of is_prime(n, k) once it has returned ret.
Returned(n, k, default, ret) ==
    [pc |-> "done", n |-> n, k |-> k, default |-> default,
     r |-> 0, d |-> 0, i |-> 0, a |-> 0, ret |-> ret]

\* is_prime_enter with the fast path "n in (2, 3)" taken for 3 alone.
is_prime_enter_no_two(n, karg, default) ==
    IF n < 2 THEN Returned(n, karg, default, FALSE)
    ELSE IF n = 3 THEN Returned(n, karg, default, TRUE)
    ELSE IF n % 2 = 0 THEN Returned(n, karg, default, FALSE)
    ELSE LET k == IF default THEN _get_miller_rabin_iterations(bit_length(n))
                  ELSE karg
             rd == factor_twos(0, n - 1)
         IN  IF k <= 0 THEN Returned(n, k, default, TRUE)
             ELSE [pc |-> "round", n |-> n, k |-> k, default |-> default,
                   r |-> rd[1], d |-> rd[2], i |-> 0, a |-> 0, ret |-> FALSE]

\* is_prime up to its first round: the fast paths, k, and the factoring of
\* n - 1.  default says that k was left None; karg is k otherwise.
is_prime_enter(n, karg, default) ==
    IF n < 2 THEN Returned(n, karg, default, FALSE)
    ELSE IF n \in {2, 3} THEN Returned(n, karg, default, TRUE)
    ELSE IF n % 2 = 0 THEN Returned(n, karg, default, FALSE)
    ELSE LET k == IF default THEN _get_miller_rabin_iterations(bit_length(n))
                  ELSE karg
             rd == factor_twos(0, n - 1)
         IN  IF k <= 0 THEN Returned(n, k, default, TRUE)
             ELSE [pc |-> "round", n |-> n, k |-> k, default |-> default,
                   r |-> rd[1], d |-> rd[2], i |-> 0, a |-> 0, ret |-> FALSE]

\* One round of is_prime with the witness a drawn, and the return it leads to.
is_prime_round(f, a) ==
    IF ~round_passes(f.n, f.r, f.d, a)
    THEN [f EXCEPT !.pc = "done", !.a = a, !.ret = FALSE]
    ELSE IF f.i + 1 = f.k
    THEN [f EXCEPT !.pc = "done", !.a = a, !.i = f.i + 1, !.ret = TRUE]
    ELSE [f EXCEPT !.a = a, !.i = f.i + 1]

\* Every value is_prime(n) (k left None) can return, over all the sequences
\* of witnesses its rounds can draw: True when no round fails, False when one
\* does.
is_prime_results(n) ==
    LET f == is_prime_enter(n, 0, TRUE)
    IN  IF f.pc = "done" THEN {f.ret}
        ELSE {TRUE : a \in {w \in witness_draws(n) : round_passes(n, f.r, f.d, w)}}
             \cup {FALSE : a \in {w \in witness_draws(n) : ~round_passes(n, f.r, f.d, w)}}

----------------------------------------------------------------------------
(* PublicKey and PrivateKey: frozen dataclasses, validated when built.     *)

PublicKey(n) ==
    IF n <= 1 THEN Raise("ValueError", "Public key n must be > 1")
    ELSE Ok([kind |-> "PublicKey", n |-> n])

PrivateKey(d, pp, qq) ==
    IF d <= 0 \/ pp <= 1 \/ qq <= 1
    THEN Raise("ValueError", "Invalid private key parameters")
    ELSE Ok([kind |-> "PrivateKey", d |-> d, p |-> pp, q |-> qq])

\* A value that is no key at all, such as the string "not_a_key".
NotAKey == [kind |-> "str"]

\* isinstance(x, cls)
isinstance(x, cls) == x.kind = cls

\* Whether reading x.n succeeds; it raises AttributeError otherwise.
has_n(x) == "n" \in DOMAIN x

----------------------------------------------------------------------------
(* SchmidtSamoa.generate_prime and SchmidtSamoa.generate_keypair.          *)

\* The floor on bits of generate_keypair.  It is 64 in the program, and
\* KeyBits here.
MinKeyBits == KeyBits

\* a | b on non-negative integers.
RECURSIVE BitOr(_, _)
BitOr(a, b) ==
    IF a = 0 THEN b
    ELSE IF b = 0 THEN a
    ELSE 2 * BitOr(a \div 2, b \div 2) + (IF a % 2 = 1 \/ b % 2 = 1 THEN 1 ELSE 0)

\* secrets.randbits(k): any of 0..2^k - 1.
randbits(k) == 0..(2^k - 1)

\* The candidates without the top bit forced: n |= 1 alone.
candidates_no_top_bit(nbits) == {BitOr(u, 1) : u \in randbits(nbits)}

\* The candidates one iteration of generate_prime can draw:
\* n = secrets.randbits(bits); n |= (1 << (bits - 1)) | 1.  Its own guard,
\* bits < 2, cannot fail below the floor of generate_keypair.
candidates(nbits) == {BitOr(u, BitOr(2^(nbits - 1), 1)) : u \in randbits(nbits)}

\* assemble_keys with the wrong prime squared in n.
assemble_keys_q_squared(pp, qq) ==
    LET n == (pp * qq) * qq
        lcm_val == math_lcm(pp - 1, qq - 1)
        d == mod_inverse(n, lcm_val)
    IN  IF ~IsOk(d) THEN d
        ELSE LET public_key == PublicKey(n)
                 private_key == PrivateKey(d.val, pp, qq)
             IN  IF ~IsOk(public_key) THEN public_key
                 ELSE IF ~IsOk(private_key) THEN private_key
                 ELSE Ok([pub |-> public_key.val, priv |-> private_key.val])

\* assemble_keys with lcm(p, q - 1) for lcm(p - 1, q - 1).
assemble_keys_lcm_of_p(pp, qq) ==
    LET n == (pp * pp) * qq
        lcm_val == math_lcm(pp, qq - 1)
        d == mod_inverse(n, lcm_val)
    IN  IF ~IsOk(d) THEN d
        ELSE LET public_key == PublicKey(n)
                 private_key == PrivateKey(d.val, pp, qq)
             IN  IF ~IsOk(public_key) THEN public_key
                 ELSE IF ~IsOk(private_key) THEN private_key
                 ELSE Ok([pub |-> public_key.val, priv |-> private_key.val])

\* Lines 230-241 of generate_keypair, once p and q are drawn: the pair of
\* keys, or the error of mod_inverse or of a key's validation.
assemble_keys(pp, qq) ==
    LET n == (pp * pp) * qq
        lcm_val == math_lcm(pp - 1, qq - 1)
        d == mod_inverse(n, lcm_val)
    IN  IF ~IsOk(d) THEN d
        ELSE LET public_key == PublicKey(n)
                 private_key == PrivateKey(d.val, pp, qq)
             IN  IF ~IsOk(public_key) THEN public_key
                 ELSE IF ~IsOk(private_key) THEN private_key
                 ELSE Ok([pub |-> public_key.val, priv |-> private_key.val])

----------------------------------------------------------------------------
(* Python's str.encode, bytes.decode, int.from_bytes and int.to_bytes.  A  *)
(* text is a sequence of code points, a byte string a sequence of 0..255.  *)

\* The UTF-8 bytes of one code point (a scalar value: no surrogate).
utf8_char(c) ==
    IF c < 128 THEN <<c>>
    ELSE IF c < 2048 THEN <<192 + (c \div 64), 128 + (c % 64)>>
    ELSE IF c < 65536
    THEN <<224 + (c \div 4096), 128 + ((c \div 64) % 64), 128 + (c % 64)>>
    ELSE <<240 + (c \div 262144), 128 + ((c \div 4096) % 64),
           128 + ((c \div 64) % 64), 128 + (c % 64)>>

\* text.encode('utf-8')
RECURSIVE str_encode(_)
str_encode(text) ==
    IF text = <<>> THEN <<>> ELSE utf8_char(Head(text)) \o str_encode(Tail(text))

IsCont(b) == b \in 128..191

\* data.decode('utf-8'), strict: the text, or UnicodeDecodeError.
RECURSIVE bytes_decode(_)
bytes_decode(bs) ==
    IF bs = <<>> THEN Ok(<<>>)
    ELSE LET b1 == bs[1]
             len == IF b1 < 128 THEN 1
                    ELSE IF b1 \in 194..223 THEN 2
                    ELSE IF b1 \in 224..239 THEN 3
                    ELSE IF b1 \in 240..244 THEN 4
                    ELSE 0
             wellformed ==
                 /\ len >= 1 /\ Len(bs) >= len
                 /\ \A j \in 2..len : IsCont(bs[j])
                 /\ b1 = 224 => bs[2] >= 160
                 /\ b1 = 237 => bs[2] <= 159
                 /\ b1 = 240 => bs[2] >= 144
                 /\ b1 = 244 => bs[2] <= 143
             c == IF len = 1 THEN b1
                  ELSE IF len = 2 THEN (b1 - 192) * 64 + (bs[2] - 128)
                  ELSE IF len = 3
                  THEN (b1 - 224) * 4096 + (bs[2] - 128) * 64 + (bs[3] - 128)
                  ELSE (b1 - 240) * 262144 + (bs[2] - 128) * 4096
                       + (bs[3] - 128) * 64 + (bs[4] - 128)
         IN  IF ~wellformed THEN Raise("UnicodeDecodeError", "invalid utf-8")
             ELSE LET rest == bytes_decode(SubSeq(bs, len + 1, Len(bs)))
                  IN  IF IsOk(rest) THEN Ok(<<c>> \o rest.val) ELSE rest

\* int.from_bytes(bs, 'big'); values from IntCap on are collapsed to IntCap.
RECURSIVE from_bytes(_)
from_bytes(bs) ==
    IF bs = <<>> THEN 0
    ELSE LET hi == from_bytes(SubSeq(bs, 1, Len(bs) - 1))
         IN  IF hi >= IntCap \div 256 THEN IntCap
             ELSE hi * 256 + bs[Len(bs)]

\* v.to_bytes(num_bytes, 'big') for a v that fits.
RECURSIVE to_bytes(_, _)
to_bytes(v, num_bytes) ==
    IF num_bytes = 0 THEN <<>>
    ELSE Append(to_bytes(v \div 256, num_bytes - 1), v % 256)

----------------------------------------------------------------------------
(* SchmidtSamoa.encrypt and SchmidtSamoa.decrypt.                          *)

\* encrypt accepting a message equal to n.
encrypt_off_by_one(message, public_key) ==
    IF ~isinstance(public_key, "PublicKey")
    THEN Raise("TypeError", "public_key must be PublicKey instance")
    ELSE IF message < 0 THEN Raise("ValueError", "Message must be non-negative")
    ELSE IF message > public_key.n THEN Raise("ValueError", "Message must be < n")
    ELSE Ok(pow(message, public_key.n, public_key.n))

encrypt(message, public_key) ==
    IF ~isinstance(public_key, "PublicKey")
    THEN Raise("TypeError", "public_key must be PublicKey instance")
    ELSE IF message < 0 THEN Raise("ValueError", "Message must be non-negative")
    ELSE IF message >= public_key.n THEN Raise("ValueError", "Message must be < n")
    ELSE Ok(pow(message, public_key.n, public_key.n))

\* decrypt reducing modulo n = p*p*q instead of p*q.
decrypt_modulo_n(ciphertext, private_key) ==
    IF ~isinstance(private_key, "PrivateKey")
    THEN Raise("TypeError", "private_key must be PrivateKey instance")
    ELSE IF ciphertext < 0 THEN Raise("ValueError", "Ciphertext must be non-negative")
    ELSE LET n == private_key.p * private_key.p * private_key.q
         IN  Ok(pow(ciphertext, private_key.d, n))

decrypt(ciphertext, private_key) ==
    IF ~isinstance(private_key, "PrivateKey")
    THEN Raise("TypeError", "private_key must be PrivateKey instance")
    ELSE IF ciphertext < 0 THEN Raise("ValueError", "Ciphertext must be non-negative")
    ELSE LET pq == private_key.p * private_key.q
         IN  Ok(pow(ciphertext, private_key.d, pq))

----------------------------------------------------------------------------
(* The string codec.                                                       *)

\* The byte count without the "- 1": n.bit_length() // 8.
max_bytes_rounded(n) == bit_length(n) \div 8

\* (public_key.n.bit_length() - 1) // 8
max_bytes_of(n) == (bit_length(n) - 1) \div 8

\* The error of encrypt_string for a text that does not fit.
TooLarge(max_bytes) ==
    [tag |-> "ValueError", msg |-> "String too large", max_bytes |-> max_bytes]

encrypt_string(text, public_key) ==
    IF text = <<>> THEN Raise("ValueError", "Cannot encrypt empty string")
    ELSE LET text_bytes == str_encode(text)
             text_int == from_bytes(text_bytes)
         IN  IF ~has_n(public_key) THEN Raise("AttributeError", "n")
             ELSE IF text_int >= public_key.n
             THEN TooLarge(max_bytes_of(public_key.n))
             ELSE encrypt(text_int, public_key)

\* The bytes of a decrypted integer: lines 347-348 and 412-413.
int_bytes(decrypted_int) ==
    to_bytes(decrypted_int, (bit_length(decrypted_int) + 7) \div 8)

decrypt_string(encrypted_int, private_key) ==
    LET decrypted == decrypt(encrypted_int, private_key)
    IN  IF ~IsOk(decrypted) THEN decrypted
        ELSE IF decrypted.val = 0 THEN Ok(<<>>)
        ELSE bytes_decode(int_bytes(decrypted.val))

\* The loop of encrypt_large_string leaving out a last chunk that is shorter
\* than max_bytes.
RECURSIVE encrypt_chunks_drop_tail(_, _, _, _)
encrypt_chunks_drop_tail(text_bytes, i, max_bytes, public_key) ==
    IF i + max_bytes - 1 > Len(text_bytes) THEN Ok(<<>>)
    ELSE LET chunk == SubSeq(text_bytes, i, i + max_bytes - 1)
             encrypted_chunk == encrypt(from_bytes(chunk), public_key)
         IN  IF ~IsOk(encrypted_chunk) THEN encrypted_chunk
             ELSE LET rest == encrypt_chunks_drop_tail(text_bytes, i + max_bytes,
                                                       max_bytes, public_key)
                  IN  IF IsOk(rest) THEN Ok(<<encrypted_chunk.val>> \o rest.val)
                      ELSE rest

\* The loop of encrypt_large_string from offset i on: the list of encrypted
\* chunks, or the error of the first chunk that encrypt rejects.
RECURSIVE encrypt_chunks(_, _, _, _)
encrypt_chunks(text_bytes, i, max_bytes, public_key) ==
    IF i > Len(text_bytes) THEN Ok(<<>>)
    ELSE LET last == IF i + max_bytes - 1 < Len(text_bytes)
                     THEN i + max_bytes - 1 ELSE Len(text_bytes)
             chunk == SubSeq(text_bytes, i, last)
             encrypted_chunk == encrypt(from_bytes(chunk), public_key)
         IN  IF ~IsOk(encrypted_chunk) THEN encrypted_chunk
             ELSE LET rest == encrypt_chunks(text_bytes, i + max_bytes,
                                             max_bytes, public_key)
                  IN  IF IsOk(rest) THEN Ok(<<encrypted_chunk.val>> \o rest.val)
                      ELSE rest

encrypt_large_string(text, public_key) ==
    IF text = <<>> THEN Ok(<<>>)
    ELSE IF ~has_n(public_key) THEN Raise("AttributeError", "n")
    ELSE LET max_bytes == max_bytes_of(public_key.n)
         IN  IF max_bytes = 0
             THEN Raise("ValueError", "range() arg 3 must not be zero")
             ELSE encrypt_chunks(str_encode(text), 1, max_bytes, public_key)

\* The loop of decrypt_large_string: the bytes gathered from the chunks, or
\* the error of the first chunk that decrypt rejects.
RECURSIVE decrypt_chunks(_, _)
decrypt_chunks(encrypted_chunks, private_key) ==
    IF encrypted_chunks = <<>> THEN Ok(<<>>)
    ELSE LET decrypted == decrypt(Head(encrypted_chunks), private_key)
         IN  IF ~IsOk(decrypted) THEN decrypted
             ELSE LET rest == decrypt_chunks(Tail(encrypted_chunks), private_key)
                      chunk_bytes == IF decrypted.val = 0 THEN <<>>
                                     ELSE int_bytes(decrypted.val)
                  IN  IF IsOk(rest) THEN Ok(chunk_bytes \o rest.val) ELSE rest

decrypt_large_string(encrypted_chunks, private_key) ==
    IF encrypted_chunks = <<>> THEN Ok(<<>>)
    ELSE LET decrypted_bytes == decrypt_chunks(encrypted_chunks, private_key)
         IN  IF ~IsOk(decrypted_bytes) THEN decrypted_bytes
             ELSE bytes_decode(decrypted_bytes.val)

----------------------------------------------------------------------------
(* The initial state: nothing has been called.                             *)

Init ==
    /\ fn = NoArith
    /\ mr = NoFrame
    /\ pc = "idle"
    /\ bits = 0
    /\ p = 0
    /\ q = 0
    /\ keys = None
    /\ enc = NoCall
    /\ dec = NoCall

----------------------------------------------------------------------------
(* The arithmetic functions, called on their own.                          *)

CallExtendedGcd ==
    \E a \in 0..MaxArg, b \in 0..MaxArg :
        /\ fn' = [name |-> "extended_gcd", a |-> a, b |-> b,
                  out |-> Ok(extended_gcd(a, b))]
        /\ UNCHANGED <<mr, pc, bits, p, q, keys, enc, dec>>

CallModInverse ==
    \E a \in (-MaxArg)..MaxArg, m \in (-1)..MaxArg :
        /\ fn' = [name |-> "mod_inverse", a |-> a, b |-> m,
                  out |-> mod_inverse(a, m)]
        /\ UNCHANGED <<mr, pc, bits, p, q, keys, enc, dec>>

NextArith == CallExtendedGcd \/ CallModInverse

SpecArith == Init /\ [][NextArith]_vars

----------------------------------------------------------------------------
(* is_prime, called on its own, one round of Miller-Rabin per step.        *)

CallIsPrime ==
    \E n \in (-1)..MaxN, karg \in 0..MaxK, default \in BOOLEAN :
        /\ mr.pc \in {"none", "done"}
        /\ default => karg = 0
        /\ mr' = is_prime_enter(n, karg, default)
        /\ UNCHANGED <<fn, pc, bits, p, q, keys, enc, dec>>

MillerRabinRound ==
    /\ mr.pc = "round"
    /\ \E a \in witness_draws(mr.n) : mr' = is_prime_round(mr, a)
    /\ UNCHANGED <<fn, pc, bits, p, q, keys, enc, dec>>

NextPrime == CallIsPrime \/ MillerRabinRound

SpecPrime == Init /\ [][NextPrime]_vars

----------------------------------------------------------------------------
(* generate_keypair, one draw of generate_prime per step.  A draw is a     *)
(* candidate and one of the answers is_prime can give for it.              *)

\* The values of bits generate_keypair is called with.
BitsInputs == (KeyBits - 1)..KeyBits

CallGenerateKeypair ==
    \E b \in BitsInputs :
        /\ pc = "idle"
        /\ bits' = b
        /\ IF b < MinKeyBits
           THEN /\ pc' = "done"
                /\ keys' = Raise("ValueError", "Minimum key size is 64 bits")
           ELSE /\ pc' = "draw_p"
                /\ keys' = keys
        /\ UNCHANGED <<fn, mr, p, q, enc, dec>>

\* p = generate_prime(bits)
DrawP ==
    /\ pc = "draw_p"
    /\ \E c \in candidates(bits), prime \in BOOLEAN :
        /\ prime \in is_prime_results(c)
        /\ IF prime THEN p' = c /\ pc' = "draw_q" ELSE UNCHANGED <<p, pc>>
    /\ UNCHANGED <<fn, mr, bits, q, keys, enc, dec>>

\* q = generate_prime(bits), first or again while q == p; then the rest of
\* generate_keypair.
DrawQ ==
    /\ pc \in {"draw_q", "redraw_q"}
    /\ \E c \in candidates(bits), prime \in BOOLEAN :
        /\ prime \in is_prime_results(c)
        /\ IF ~prime THEN UNCHANGED <<q, pc, keys>>
           ELSE /\ q' = c
                /\ IF c = p THEN pc' = "redraw_q" /\ keys' = keys
                   ELSE pc' = "done" /\ keys' = assemble_keys(p, c)
    /\ UNCHANGED <<fn, mr, bits, p, enc, dec>>

----------------------------------------------------------------------------
(* The operations on a generated key pair.  They are functions of their   *)
(* arguments alone, so a behaviour makes one encrypting call and one       *)
(* decrypting call, or a decrypting call only.  The key argument is the    *)
(* public key, the private key, or no key; the decrypting call takes what  *)
(* the encrypting call returned, or a ciphertext of its own.               *)

\* The code points texts are made of: NUL, "A", and e-acute (two bytes).
Alphabet == {0, 65, 233}

RECURSIVE SeqsUpTo(_, _)
SeqsUpTo(S, n) ==
    IF n = 0 THEN {<<>>}
    ELSE LET shorter == SeqsUpTo(S, n - 1)
         IN  shorter \cup {Append(t, c) : t \in shorter, c \in S}

Texts == SeqsUpTo(Alphabet, MaxTextLen)

KeyArgs == {keys.val.pub, keys.val.priv, NotAKey}

IntMessages ==
    LET n == keys.val.pub.n
        pq == keys.val.priv.p * keys.val.priv.q
    IN  ((-1)..MaxMsg) \cup {keys.val.priv.p, pq - 1, pq, n - 1, n}

HaveKeys == pc = "done" /\ IsOk(keys)

\* No encrypting and no decrypting call has been made yet.
Fresh == enc = NoCall /\ dec = NoCall

Call(op, arg, key, ret) == [op |-> op, arg |-> arg, key |-> key, ret |-> ret]

Encrypt ==
    /\ HaveKeys /\ Fresh
    /\ \E message \in IntMessages, key \in KeyArgs :
        enc' = Call("encrypt", message, key, encrypt(message, key))
    /\ dec' = NoCall
    /\ UNCHANGED <<fn, mr, pc, bits, p, q, keys>>

EncryptString ==
    /\ HaveKeys /\ Fresh
    /\ \E text \in Texts, key \in KeyArgs :
        enc' = Call("encrypt_string", text, key, encrypt_string(text, key))
    /\ dec' = NoCall
    /\ UNCHANGED <<fn, mr, pc, bits, p, q, keys>>

EncryptLargeString ==
    /\ HaveKeys /\ Fresh
    /\ \E text \in Texts, key \in KeyArgs :
        enc' = Call("encrypt_large_string", text, key,
                    encrypt_large_string(text, key))
    /\ dec' = NoCall
    /\ UNCHANGED <<fn, mr, pc, bits, p, q, keys>>

\* The ciphertexts a decrypting call for the integers is given.
IntCiphertexts ==
    IF enc.op \in {"encrypt", "encrypt_string"} /\ IsOk(enc.ret)
    THEN {enc.ret.val}
    ELSE IF enc.op = "none" THEN (-1)..1
    ELSE {}

\* The lists of chunks decrypt_large_string is given.
ChunkLists ==
    IF enc.op = "encrypt_large_string" /\ IsOk(enc.ret) THEN {enc.ret.val}
    ELSE IF enc.op = "none" THEN {<<>>, <<1>>}
    ELSE {}

Decrypt ==
    /\ HaveKeys /\ dec = NoCall
    /\ enc.op \in {"none", "encrypt"}
    /\ \E ciphertext \in IntCiphertexts, key \in KeyArgs :
        dec' = Call("decrypt", ciphertext, key, decrypt(ciphertext, key))
    /\ UNCHANGED <<fn, mr, pc, bits, p, q, keys, enc>>

DecryptString ==
    /\ HaveKeys /\ dec = NoCall
    /\ enc.op \in {"none", "encrypt_string"}
    /\ \E ciphertext \in IntCiphertexts, key \in KeyArgs :
        dec' = Call("decrypt_string", ciphertext, key,
                    decrypt_string(ciphertext, key))
    /\ UNCHANGED <<fn, mr, pc, bits, p, q, keys, enc>>

DecryptLargeString ==
    /\ HaveKeys /\ dec = NoCall
    /\ \E chunks \in ChunkLists, key \in KeyArgs :
        dec' = Call("decrypt_large_string", chunks, key,
                    decrypt_large_string(chunks, key))
    /\ UNCHANGED <<fn, mr, pc, bits, p, q, keys, enc>>

Next ==
    \/ CallGenerateKeypair \/ DrawP \/ DrawQ
    \/ Encrypt \/ EncryptString \/ EncryptLargeString
    \/ Decrypt \/ DecryptString \/ DecryptLargeString

Spec == Init /\ [][Next]_vars

----------------------------------------------------------------------------
(* encrypt_large_string under a public key the caller built: PublicKey is  *)
(* a public dataclass that accepts every n > 1.                            *)

\* The moduli PublicKey is built from: the least ones, those around the
\* byte capacities 0, 1 and 2, and one that generate_keypair yields
\* (56129 = 37 * 37 * 41).
ModulusInputs == {0, 1, 2, 255, 256, 257, 56129, 65535, 65536, 65537}

\* PublicKey(n=n); the caller holds no private key.
BuildPublicKey ==
    \E n \in ModulusInputs :
        /\ pc = "idle" /\ keys = None
        /\ LET public_key == PublicKey(n)
           IN  keys' = IF IsOk(public_key)
                       THEN Ok([pub |-> public_key.val, priv |-> NotAKey])
                       ELSE public_key
        /\ UNCHANGED <<fn, mr, pc, bits, p, q, enc, dec>>

EncryptLargeStringBuilt ==
    /\ pc = "idle" /\ IsOk(keys) /\ enc = NoCall
    /\ \E text \in Texts :
        enc' = Call("encrypt_large_string", text, keys.val.pub,
                    encrypt_large_string(text, keys.val.pub))
    /\ UNCHANGED <<fn, mr, pc, bits, p, q, keys, dec>>

NextKey == BuildPublicKey \/ EncryptLargeStringBuilt

SpecKey == Init /\ [][NextKey]_vars

----------------------------------------------------------------------------
(* Arithmetic used to state the properties.                                *)

Divides(d, n) == n % d = 0

\* The greatest common divisor, from its definition (gcd(0, 0) = 0).
Gcd(a, b) ==
    IF a = 0 /\ b = 0 THEN 0
    ELSE LET m == IF Abs(a) > Abs(b) THEN Abs(a) ELSE Abs(b)
             cd == {d \in 1..m : Divides(d, a) /\ Divides(d, b)}
         IN  CHOOSE d \in cd : \A e \in cd : e <= d

IsPrimeNumber(n) == n >= 2 /\ \A e \in 2..(n - 1) : ~Divides(e, n)

\* a is a strong liar for the odd number n > 2: with n - 1 = d * 2^r and d
\* odd, a^d = 1 or a^(d * 2^j) = -1 (mod n) for some j < r.
StrongLiar(n, a) ==
    LET r == CHOOSE s \in 1..bit_length(n) :
                 Divides(2^s, n - 1) /\ ~Divides(2^(s + 1), n - 1)
        d == (n - 1) \div 2^r
    IN  \/ pow(a, d, n) = 1
        \/ \E j \in 0..(r - 1) : pow(a, d * 2^j, n) = n - 1

\* The least common multiple of two positive numbers.
Lcm(a, b) == (a * b) \div Gcd(a, b)

\* Whether the big-endian integer of the bytes bs is at least n.
RECURSIVE ValueAtLeast(_, _)
ValueAtLeast(bs, n) ==
    IF n <= 0 THEN TRUE
    ELSE IF bs = <<>> THEN FALSE
    ELSE ValueAtLeast(SubSeq(bs, 1, Len(bs) - 1), (n - bs[Len(bs)] + 255) \div 256)

\* floor((bitlength(n) - 1) / 8) for 1 <= n < 2^24: the k with
\* 256^k <= n < 256^(k+1).
Capacity(n) == CHOOSE k \in 0..2 : 256^k <= n /\ n < 256^(k + 1)

\* No chunk of mb bytes of bs begins with a 0x00 byte.
NoChunkLeadsWithZero(bs, mb) ==
    \A j \in 1..Len(bs) : (j - 1) % mb = 0 => bs[j] # 0

\* The keys generate_keypair returned, and whether both primes are prime: a
\* composite comes through only when is_prime drew nothing but liars.
pub == keys.val.pub
priv == keys.val.priv
PrimeKeys == HaveKeys /\ IsPrimeNumber(priv.p) /\ IsPrimeNumber(priv.q)

\* A call with a key of the wrong kind, or with no key.
WrongKey(call, kind) == call.op # "none" /\ ~isinstance(call.key, kind)

----------------------------------------------------------------------------
(* C1 as stated, for the key pairs whose p and q are prime: for every m    *)
(* with 0 <= m < n, decrypt(encrypt(m, pub), priv) = m.                    *)
C1_Original ==
    (/\ PrimeKeys
     /\ enc.op = "encrypt" /\ enc.key = pub
     /\ 0 <= enc.arg /\ enc.arg < pub.n) =>
        /\ IsOk(enc.ret)
        /\ (dec.op = "decrypt" /\ dec.key = priv) => dec.ret = Ok(enc.arg)

----------------------------------------------------------------------------
(* C2 as stated, for the key pairs whose p and q are prime: for every      *)
(* non-empty s of at most floor((bitlength(n) - 1) / 8) encoded bytes, the *)
(* first not 0x00, decrypt_string(encrypt_string(s, pub), priv) = s.       *)
C2_Original ==
    (/\ PrimeKeys
     /\ enc.op = "encrypt_string" /\ enc.key = pub
     /\ enc.arg # <<>>
     /\ Len(str_encode(enc.arg)) <= Capacity(pub.n)
     /\ str_encode(enc.arg)[1] # 0) =>
        /\ IsOk(enc.ret)
        /\ (dec.op = "decrypt_string" /\ dec.key = priv) => dec.ret = Ok(enc.arg)

----------------------------------------------------------------------------
(* C3 as stated, for the key pairs whose p and q are prime: for every text *)
(* none of whose chunks of max_bytes bytes begins with 0x00,               *)
(* decrypt_large_string(encrypt_large_string(text, pub), priv) = text.     *)
C3_Original ==
    (/\ PrimeKeys
     /\ enc.op = "encrypt_large_string" /\ enc.key = pub
     /\ NoChunkLeadsWithZero(str_encode(enc.arg), Capacity(pub.n))) =>
        /\ IsOk(enc.ret)
        /\ (dec.op = "decrypt_large_string" /\ dec.key = priv) =>
               dec.ret = Ok(enc.arg)

----------------------------------------------------------------------------
(* C4: encrypt(message, pub) fails with a range error exactly when         *)
(* message < 0 or message >= n, and otherwise returns message^n mod n, a   *)
(* value in [0, n).                                                        *)
C4_EncryptRange ==
    (enc.op = "encrypt" /\ isinstance(enc.key, "PublicKey")) =>
        LET n == enc.key.n
            outside == enc.arg < 0 \/ enc.arg >= n
        IN  /\ outside <=> enc.ret.tag = "ValueError"
            /\ ~outside => /\ enc.ret = Ok(pow(enc.arg, n, n))
                           /\ enc.ret.val \in 0..(n - 1)

\* encrypt has accepted n - 1 under a key of two primes.
C4_Witness ==
    /\ PrimeKeys
    /\ enc.op = "encrypt" /\ enc.key = pub
    /\ enc.arg = pub.n - 1 /\ IsOk(enc.ret)

----------------------------------------------------------------------------
(* C5 as stated: for every a and every m > 0, if gcd(a, m) = 1 then        *)
(* mod_inverse returns x in [0, m) with (x * a) mod m = 1, and otherwise   *)
(* it raises the no-inverse error.                                         *)
C5_Original ==
    (fn.name = "mod_inverse" /\ fn.b > 0) =>
        IF Gcd(fn.a, fn.b) = 1
        THEN /\ IsOk(fn.out)
             /\ fn.out.val \in 0..(fn.b - 1)
             /\ (fn.out.val * fn.a) % fn.b = 1
        ELSE fn.out = Raise("ValueError", "Modular inverse doesn't exist")

(* C5 amended: as above, with (x * a) mod m = 1 mod m; for m = 1 that is   *)
(* 0, and mod_inverse returns 0.                                           *)
C5_ModInverse ==
    (fn.name = "mod_inverse" /\ fn.b > 0) =>
        IF Gcd(fn.a, fn.b) = 1
        THEN /\ IsOk(fn.out)
             /\ fn.out.val \in 0..(fn.b - 1)
             /\ (fn.out.val * fn.a) % fn.b = 1 % fn.b
        ELSE fn.out = Raise("ValueError", "Modular inverse doesn't exist")

\* mod_inverse has inverted a negative a whose coefficient had to be normalised.
C5_Witness ==
    /\ fn.name = "mod_inverse"
    /\ fn.a = -5 /\ fn.b = 12 /\ fn.out = Ok(7)
    /\ extended_gcd(fn.a % fn.b, fn.b)[2] < 0

----------------------------------------------------------------------------
(* C6: for non-negative a and b, also when one of them is 0, extended_gcd  *)
(* returns (g, x, y) with g = gcd(a, b) and a*x + b*y = g.                 *)
C6_ExtendedGcdBezout ==
    (fn.name = "extended_gcd") =>
        /\ IsOk(fn.out)
        /\ fn.out.val[1] = Gcd(fn.a, fn.b)
        /\ fn.a * fn.out.val[2] + fn.b * fn.out.val[3] = fn.out.val[1]

\* extended_gcd has run its loop several times.
C6_Witness ==
    /\ fn.name = "extended_gcd"
    /\ fn.a = 12 /\ fn.b = 7 /\ fn.out.val = <<1, 3, -5>>

----------------------------------------------------------------------------
(* C7 as stated, for the key pairs whose p and q are prime: every          *)
(* operation given a key of the other kind, or no key, fails with a        *)
(* TypeError, whatever the payload.                                        *)
C7_Original ==
    PrimeKeys =>
        /\ WrongKey(enc, "PublicKey") => enc.ret.tag = "TypeError"
        /\ WrongKey(dec, "PrivateKey") => dec.ret.tag = "TypeError"

----------------------------------------------------------------------------
(* C8: every pair generate_keypair returns has n = p*p*q, p # q, p > 1,    *)
(* q > 1, d > 0 and (d * n) mod lcm(p-1, q-1) = 1, whatever the prime      *)
(* search drew.                                                            *)
C8_KeypairInvariant ==
    HaveKeys =>
        LET l == Lcm(priv.p - 1, priv.q - 1)
        IN  /\ isinstance(pub, "PublicKey") /\ isinstance(priv, "PrivateKey")
            /\ pub.n = priv.p * priv.p * priv.q
            /\ priv.p # priv.q
            /\ priv.p > 1 /\ priv.q > 1
            /\ priv.d > 0
            /\ ((priv.d % l) * (pub.n % l)) % l = 1

\* generate_keypair has returned a pair for two primes.
C8_Witness ==
    /\ PrimeKeys
    /\ priv.p = 61 /\ priv.q = 59 /\ pub.n = 219539

----------------------------------------------------------------------------
(* C9: encrypt_string(text, pub) fails exactly when text is empty or the   *)
(* big-endian integer of its bytes is >= n; in the latter case the error   *)
(* reports floor((bitlength(n) - 1) / 8); no text of 1 to that many bytes  *)
(* is rejected.                                                            *)
C9_EncryptStringErrors ==
    (enc.op = "encrypt_string" /\ isinstance(enc.key, "PublicKey")) =>
        LET n == enc.key.n
            bs == str_encode(enc.arg)
        IN  /\ ~IsOk(enc.ret) <=> (enc.arg = <<>> \/ ValueAtLeast(bs, n))
            /\ (enc.arg # <<>> /\ ValueAtLeast(bs, n)) =>
                   enc.ret = TooLarge(Capacity(n))
            /\ Len(bs) \in 1..Capacity(n) => IsOk(enc.ret)

\* encrypt_string has rejected a text of three bytes under a key that takes two.
C9_Witness ==
    /\ PrimeKeys
    /\ enc.op = "encrypt_string" /\ enc.key = pub
    /\ Len(str_encode(enc.arg)) = 3
    /\ enc.ret = TooLarge(2)

----------------------------------------------------------------------------
(* C10 as stated: whatever witnesses the rounds draw, is_prime(n) with the *)
(* default iteration count returns true exactly when n is prime.  It is    *)
(* stated for the calls whose last witness is in [2, n - 2], the range the *)
(* comment of the draw gives.                                              *)
C10_Original ==
    (mr.pc = "done" /\ mr.default /\ mr.a <= mr.n - 2) =>
        (mr.ret <=> IsPrimeNumber(mr.n))

(* C10 amended: is_prime(n) with the default iteration count returns true  *)
(* for every prime n, and returns false for every other n unless each of   *)
(* its 64 rounds drew a strong liar for n (n = 25 with 7 or 18 in every    *)
(* round, or any odd composite n with n - 1 in every round).               *)
C10_IsPrimeUpToLiars ==
    (mr.pc # "none" /\ mr.default) =>
        /\ (mr.pc = "done" /\ IsPrimeNumber(mr.n)) => mr.ret
        /\ (mr.pc = "done" /\ mr.ret /\ ~IsPrimeNumber(mr.n)) =>
               (mr.i = 64 /\ mr.k = 64)
        /\ (mr.i > 0 /\ (mr.pc = "round" \/ mr.ret) /\ ~IsPrimeNumber(mr.n)) =>
               StrongLiar(mr.n, mr.a)

\* The composite 25 has come through all 64 rounds, the last with the liar 7.
C10_Witness ==
    /\ mr.pc = "done" /\ mr.default
    /\ mr.n = 25 /\ mr.i = 64 /\ mr.ret /\ mr.a = 7

----------------------------------------------------------------------------
(* C11: in every pair generate_keypair(bits) returns, p and q have bit     *)
(* length exactly bits and 3*bits - 2 <= bitlength(n) <= 3*bits.           *)
C11_ModulusBitLength ==
    HaveKeys =>
        /\ bit_length(priv.p) = bits /\ bit_length(priv.q) = bits
        /\ 3 * bits - 2 <= bit_length(pub.n)
        /\ bit_length(pub.n) <= 3 * bits

\* generate_keypair has returned a modulus of the least length, 3*bits - 2.
C11_Witness ==
    /\ PrimeKeys
    /\ priv.p = 37 /\ priv.q = 41
    /\ bit_length(pub.n) = 3 * bits - 2

----------------------------------------------------------------------------
(* C12 as stated: every witness a round of is_prime(n) draws, for odd      *)
(* n >= 5, satisfies 2 <= a <= n - 2; a is never n - 1.                    *)
C12_Original ==
    (mr.pc \in {"round", "done"} /\ mr.n >= 5 /\ mr.n % 2 = 1 /\ mr.a # 0) =>
        (2 <= mr.a /\ mr.a <= mr.n - 2)

----------------------------------------------------------------------------
\* The k-th chunk of mb bytes of bs, the last one being what is left.
ChunkOf(bs, k, mb) ==
    SubSeq(bs, (k - 1) * mb + 1, IF k * mb < Len(bs) THEN k * mb ELSE Len(bs))

\* ret is the list of ceil(Len(bs) / mb) ciphertexts, the k-th being encrypt
\* of the big-endian integer of the k-th chunk, which is below n.
IsChunkwiseEncryption(ret, bs, mb, key) ==
    /\ IsOk(ret)
    /\ Len(ret.val) = (Len(bs) + mb - 1) \div mb
    /\ \A k \in 1..Len(ret.val) :
           LET chunk == ChunkOf(bs, k, mb)
           IN  /\ Len(chunk) = mb \/ (k = Len(ret.val) /\ Len(chunk) \in 1..mb)
               /\ ~ValueAtLeast(chunk, key.n)
               /\ encrypt(from_bytes(chunk), key) = Ok(ret.val[k])

(* C13 as stated: for every PublicKey and every non-empty text,            *)
(* encrypt_large_string returns the ciphertexts of the consecutive chunks  *)
(* of floor((bitlength(n) - 1) / 8) bytes, and never fails.                *)
C13_Original ==
    (enc.op = "encrypt_large_string" /\ isinstance(enc.key, "PublicKey")
       /\ enc.arg # <<>>) =>
        /\ IsOk(enc.ret)
        /\ IsChunkwiseEncryption(enc.ret, str_encode(enc.arg),
                                 Capacity(enc.key.n), enc.key)

(* C13 amended: that holds for every PublicKey with n >= 256; for n < 256  *)
(* the chunk size is 0 and encrypt_large_string raises ValueError for      *)
(* every non-empty text.                                                   *)
C13_ChunkingFromOneByte ==
    (enc.op = "encrypt_large_string" /\ isinstance(enc.key, "PublicKey")
       /\ enc.arg # <<>>) =>
        IF enc.key.n >= 256
        THEN IsChunkwiseEncryption(enc.ret, str_encode(enc.arg),
                                   Capacity(enc.key.n), enc.key)
        ELSE enc.ret.tag = "ValueError"

\* Three bytes have gone out as a chunk of two and a chunk of one.
C13_Witness ==
    /\ enc.op = "encrypt_large_string" /\ isinstance(enc.key, "PublicKey")
    /\ enc.key.n = 65537
    /\ Len(str_encode(enc.arg)) = 3
    /\ IsOk(enc.ret) /\ Len(enc.ret.val) = 2

----------------------------------------------------------------------------
(* C14: under a key pair of generate_keypair whose p and q are prime,      *)
(* decrypt(encrypt(m, pub), priv) = m for every m with 0 <= m < p*q, also  *)
(* when m shares a factor with p*q, and every result of decrypt under the  *)
(* private key is in [0, p*q).                                             *)
C14_RoundTripBelowPQ ==
    PrimeKeys =>
        /\ (enc.op = "encrypt" /\ enc.key = pub
              /\ 0 <= enc.arg /\ enc.arg < priv.p * priv.q) =>
               /\ IsOk(enc.ret)
               /\ (dec.op = "decrypt" /\ dec.key = priv) => dec.ret = Ok(enc.arg)
        /\ (dec.op = "decrypt" /\ dec.key = priv /\ IsOk(dec.ret)) =>
               (0 <= dec.ret.val /\ dec.ret.val < priv.p * priv.q)

\* The message p, a factor of p*q, has come back from its ciphertext.
C14_Witness ==
    /\ PrimeKeys
    /\ enc.op = "encrypt" /\ enc.key = pub /\ enc.arg = priv.p
    /\ dec.op = "decrypt" /\ dec.key = priv
    /\ dec.arg = enc.ret.val /\ dec.arg # enc.arg
    /\ dec.ret = Ok(priv.p)

----------------------------------------------------------------------------
(* C15: is_prime(n, k) returns true for every prime n, every k >= 0, given *)
(* or left to the default, and every sequence of witnesses; a false result *)
(* means that n is not prime.                                              *)
C15_PrimesAlwaysPass ==
    /\ (mr.pc = "done" /\ IsPrimeNumber(mr.n)) => mr.ret
    /\ (mr.pc = "round" /\ IsPrimeNumber(mr.n)) => mr.i < mr.k

\* The prime 29 has come through the two rounds it was called with.
C15_Witness ==
    /\ mr.pc = "done" /\ ~mr.default
    /\ mr.n = 29 /\ mr.k = 2 /\ mr.i = 2 /\ mr.a # 0 /\ mr.ret

----------------------------------------------------------------------------
\* a and b > 0 have no common divisor but 1.
Coprime(a, b) == \A e \in 2..b : ~(Divides(e, a) /\ Divides(e, b))

(* C16: when generate_keypair returns after drawing distinct primes p and  *)
(* q of the same bit length, at least 3, p*p*q and lcm(p-1, q-1) are       *)
(* coprime and what it returns is a key pair, not the error of             *)
(* mod_inverse.                                                            *)
C16_InverseExists ==
    (/\ pc = "done" /\ Fresh
     /\ IsPrimeNumber(p) /\ IsPrimeNumber(q) /\ p # q
     /\ bit_length(p) = bit_length(q) /\ bit_length(p) >= 3) =>
        /\ Coprime(p * p * q, Lcm(p - 1, q - 1))
        /\ IsOk(keys)
        /\ priv.p = p /\ priv.q = q

\* generate_keypair has returned the pair for the primes 37 and 53.
C16_Witness ==
    /\ pc = "done" /\ Fresh /\ IsOk(keys)
    /\ p = 37 /\ q = 53
    /\ IsPrimeNumber(p) /\ IsPrimeNumber(q)
    /\ priv.d = 413

============================================================================
